---- MODULE Spec2Model ----
(***************************************************************************)
(* Model of github.com/ftbe/dawg (dawg.go): trie construction (addWord),   *)
(* minimisation (compressTrie / analyseSubTrie, with its goroutines and    *)
(* one-slot channels) and the approximate search (Search /                 *)
(* searchSubString / mergeWords).                                          *)
(*                                                                         *)
(* Pointers are indices: states[s] is the s-th allocated *state (the       *)
(* initial state is 1), letters[k] the k-th allocated *letter, NIL the nil *)
(* pointer.  A rune is its code point, a string the sequence of its runes. *)
(***************************************************************************)
EXTENDS Integers, Sequences, FiniteSets, TLC

\* ------------------------------------------------------------------ bounds
MaxWordLen == 2      \* runes per inserted word
MaxWords == 4        \* words passed to CreateDAWG
MaxQueryLen == 2     \* runes of the Search query
MaxDist == 2         \* levenshteinDistance ranges over 0..MaxDist
MaxResults == 2      \* maxResults ranges over -1..MaxResults

\* The runes words are made of: 'a' (one byte in UTF-8) and U+00E9 (two bytes).
Alphabet == {97, 233}

NIL == 0
NoRune == 0
InitialState == 1

\* ------------------------------------------------------------ sequences
RECURSIVE SeqsUpTo(_, _)
SeqsUpTo(S, n) ==
    IF n = 0 THEN {<< >>}
    ELSE LET shorter == SeqsUpTo(S, n - 1)
         IN  shorter \cup {Append(w, c) : w \in {x \in shorter : Len(x) = n - 1}, c \in S}

RECURSIVE Reverse(_)
Reverse(s) == IF s = << >> THEN << >> ELSE Append(Reverse(Tail(s)), Head(s))

Range(s) == {s[k] : k \in 1..Len(s)}

Min(a, b) == IF a < b THEN a ELSE b

\* Bytes of the UTF-8 encoding of a rune (what `range` over a string advances by).
RuneLen(r) == IF r < 128 THEN 1 ELSE IF r < 2048 THEN 2 ELSE IF r < 65536 THEN 3 ELSE 4

\* ---------------------------------------------------------------- structs
NewLetter(l) == [char |-> l, state |-> NIL, left |-> NIL, right |-> NIL, next |-> NIL]

NewState(fromLetter) ==
    [final |-> FALSE, letters |-> NIL, lettersCount |-> 0, next |-> NIL, letter |-> fromLetter]

\* The heap after `initialState := &state{final: false}`.
EmptyHeap == [states |-> <<NewState(NIL)>>, letters |-> << >>]

\* ------------------------------------------------------- the letter tree
\* getletter: walk the letter tree of a state (greater runes to the left).
RECURSIVE walkTree(_, _, _)
walkTree(H, curLetter, l) ==
    IF curLetter = NIL \/ H.letters[curLetter].char = l THEN curLetter
    ELSE IF H.letters[curLetter].char < l
         THEN walkTree(H, H.letters[curLetter].left, l)
         ELSE walkTree(H, H.letters[curLetter].right, l)

getletter(H, s, l) == walkTree(H, H.states[s].letters, l)

containsLetter(H, s, k) ==
    LET curLetter == walkTree(H, H.states[s].letters, H.letters[k].char)
    IN  curLetter # NIL /\ H.letters[curLetter].state = H.letters[k].state

\* The letters of a state in the order of its linked list (letter.next).
RECURSIVE letterList(_, _)
letterList(H, k) ==
    IF k = NIL THEN << >> ELSE <<k>> \o letterList(H, H.letters[k].next)

lettersOf(H, s) == letterList(H, H.states[s].letters)

\* equals without the comparison of the final flags.
equalsButFinal(H, s, o) ==
    IF H.states[s].lettersCount # H.states[o].lettersCount
    THEN FALSE
    ELSE \A k \in Range(lettersOf(H, s)) : containsLetter(H, o, k)

\* Lines 50-62.
equals(H, s, o) ==
    IF H.states[s].final # H.states[o].final
       \/ H.states[s].lettersCount # H.states[o].lettersCount
    THEN FALSE
    ELSE \A k \in Range(lettersOf(H, s)) : containsLetter(H, o, k)

\* ---------------------------------------------------------------- addWord
\* Lines 206-218: find the letter of rune l below curLetter, allocating it
\* where the walk falls off the tree.  Returns the heap and the letter.
RECURSIVE findOrAddLetter(_, _, _)
findOrAddLetter(H, curLetter, l) ==
    IF H.letters[curLetter].char = l THEN [heap |-> H, letter |-> curLetter]
    ELSE LET n == Len(H.letters) + 1
         IN  IF H.letters[curLetter].char < l
             THEN IF H.letters[curLetter].left = NIL
                  THEN findOrAddLetter(
                         [H EXCEPT !.letters = Append([@ EXCEPT ![curLetter].left = n], NewLetter(l))],
                         n, l)
                  ELSE findOrAddLetter(H, H.letters[curLetter].left, l)
             ELSE IF H.letters[curLetter].right = NIL
                  THEN findOrAddLetter(
                         [H EXCEPT !.letters = Append([@ EXCEPT ![curLetter].right = n], NewLetter(l))],
                         n, l)
                  ELSE findOrAddLetter(H, H.letters[curLetter].right, l)

\* Lines 201-232: one iteration of the loop over the runes of the word.
\* Returns the heap, the state reached and the number of states created.
addRune(H, curState, l) ==
    LET found ==
            IF H.states[curState].letters = NIL
            THEN LET n == Len(H.letters) + 1
                 IN  [heap |-> [H EXCEPT !.letters = Append(@, NewLetter(l)),
                                         !.states[curState].letters = n],
                      letter |-> n]
            ELSE findOrAddLetter(H, H.states[curState].letters, l)
        H1 == found.heap
        curLetter == found.letter
    IN  IF H1.letters[curLetter].state = NIL
        THEN LET s == Len(H1.states) + 1
                 head == H1.states[curState].letters
                 H2 == [H1 EXCEPT !.states = Append([@ EXCEPT ![curState].lettersCount = @ + 1],
                                                    NewState(curLetter)),
                                  !.letters[curLetter].state = s]
                 H3 == IF curLetter # head
                       THEN [H2 EXCEPT !.letters[curLetter].next = H2.letters[head].next,
                                       !.letters[head].next = curLetter]
                       ELSE H2
             IN  [heap |-> H3, state |-> s, created |-> 1]
        ELSE [heap |-> H1, state |-> H1.letters[curLetter].state, created |-> 0]

\* Lines 198-237.  k is the index of the next rune of word, i its byte offset
\* (the index `range` yields); wordSize is i + 1 for the last rune.
RECURSIVE addWordFrom(_, _, _, _, _, _, _)
addWordFrom(H, curState, word, k, i, wordSize, createdNodes) ==
    IF k > Len(word)
    THEN [heap |-> [H EXCEPT !.states[curState].final = TRUE],
          wordSize |-> wordSize, createdNodes |-> createdNodes]
    ELSE LET r == addRune(H, curState, word[k])
         IN  addWordFrom(r.heap, r.state, word, k + 1, i + RuneLen(word[k]), i + 1,
                         createdNodes + r.created)

addWord(H, word) == addWordFrom(H, InitialState, word, 1, 0, 0, 0)

\* --------------------------------------------------------- analyseSubTrie
\* Lines 178-195 without the channel operations: the states a call pushes
\* (each with the level it computed for it), in the order it reaches line 189,
\* and the value it returns.  The traversal reads only letters, lettersCount
\* and letter.state/next, which nothing writes while the workers run.
RECURSIVE analyseSubTrie(_, _)
RECURSIVE analyseLetters(_, _, _, _)
analyseLetters(H, ks, curLevel, visits) ==
    IF ks = << >> THEN [visits |-> visits, curLevel |-> curLevel]
    ELSE LET sub == analyseSubTrie(H, H.letters[Head(ks)].state)
         IN  analyseLetters(H, Tail(ks),
                            IF sub.subLevels > curLevel THEN sub.subLevels ELSE curLevel,
                            visits \o sub.visits)

analyseSubTrie(H, curState) ==
    LET r == IF H.states[curState].lettersCount # 0
             THEN analyseLetters(H, lettersOf(H, curState), 0, << >>)
             ELSE [visits |-> << >>, curLevel |-> 0]
    IN  [visits |-> Append(r.visits, [state |-> curState, level |-> r.curLevel]),
         subLevels |-> r.curLevel + 1]

\* Line 150-153: the goroutine started for one letter of the initial state.
NewWorker(H, k) ==
    [visits |-> analyseSubTrie(H, H.letters[k].state).visits, at |-> 1, pc |-> "recv"]

\* Line 190: curState.next = levels[curLevel]
linkState(H, lv, s, l) == [H EXCEPT !.states[s].next = lv[l + 1]]

\* Line 191: levels[curLevel] = curState
storeLevel(lv, s, l) == [lv EXCEPT ![l + 1] = s]

\* ------------------------------------------------- compressTrie, phase 2
\* Lines 162-174 as a step function over the loop variables.  m.at names the
\* loop whose condition is evaluated next: "level" (line 162), "outer" (line
\* 163), "inner" (line 164), or "return" (line 175).
mergeInit(H, lv) ==
    [heap |-> H, levels |-> lv, i |-> 0, curState |-> NIL, previousState |-> NIL,
     sameState |-> NIL, deletedNodes |-> 0, at |-> "level"]

mergeLevel(m) ==
    IF m.i < Len(m.levels)
    THEN [m EXCEPT !.curState = m.levels[m.i + 1], !.at = "outer"]
    ELSE [m EXCEPT !.at = "return"]

mergeOuter(m) ==
    IF m.curState # NIL /\ m.heap.states[m.curState].next # NIL
    THEN [m EXCEPT !.previousState = m.curState,
                   !.sameState = m.heap.states[m.curState].next,
                   !.at = "inner"]
    ELSE [m EXCEPT !.i = @ + 1, !.at = "level"]

\* mergeInner without line 166: the merged state stays in the list.
mergeInnerKeepsLinked(m) ==
    IF m.sameState # NIL
    THEN LET body ==
                 IF equals(m.heap, m.curState, m.sameState)
                 THEN [m EXCEPT !.heap.letters[m.heap.states[m.sameState].letter].state =
                                   m.curState,
                                !.deletedNodes = @ + 1]
                 ELSE [m EXCEPT !.previousState = m.sameState]
         IN  [body EXCEPT !.sameState = body.heap.states[m.sameState].next]
    ELSE [m EXCEPT !.curState = m.heap.states[m.curState].next, !.at = "outer"]

\* Lines 164-172: the condition of the inner loop, its body and its post
\* statement; line 163's post statement when the loop ends.
mergeInner(m) ==
    IF m.sameState # NIL
    THEN LET body ==
                 IF equals(m.heap, m.curState, m.sameState)
                 THEN LET H1 == [m.heap EXCEPT !.states[m.previousState].next =
                                                  m.heap.states[m.sameState].next]
                          H2 == [H1 EXCEPT !.letters[H1.states[m.sameState].letter].state =
                                              m.curState]
                      IN  [m EXCEPT !.heap = H2, !.deletedNodes = @ + 1]
                 ELSE [m EXCEPT !.previousState = m.sameState]
         IN  [body EXCEPT !.sameState = body.heap.states[m.sameState].next]
    ELSE [m EXCEPT !.curState = m.heap.states[m.curState].next, !.at = "outer"]

mergeStep(m) ==
    CASE m.at = "level" -> mergeLevel(m)
      [] m.at = "outer" -> mergeOuter(m)
      [] m.at = "inner" -> mergeInner(m)
      [] OTHER -> m

\* ----------------------------------------------------------------- search
\* A list of words (word.nextWord) is the sequence of its contents, head
\* first; the lastWord pointers that travel with it always point at its
\* last element, which is all mergeWords needs them for.
NoWords == [words |-> << >>, wordsSize |-> 0, returned |-> FALSE]

\* Lines 261-271.
mergeWords(words1, wordsSize1, words2, wordsSize2) ==
    IF words1 = << >>
    THEN [words |-> words2, wordsSize |-> wordsSize2]
    ELSE [words |-> words1 \o words2, wordsSize |-> wordsSize1 + wordsSize2]

\* Lines 290-293 (and 309-312, 321-324, 348-351): merge what a recursive call
\* found in front of what this call holds; returned is set where the code
\* returns at once.
collect(found, acc, maxResults) ==
    LET m == mergeWords(found.words, found.wordsSize, acc.words, acc.wordsSize)
    IN  [words |-> m.words, wordsSize |-> m.wordsSize,
         returned |-> maxResults > 0 /\ m.wordsSize > maxResults]

\* A budget that lets one edit operation more (spends the last unit twice).
canEditOnceMore(levenshteinDistance) == levenshteinDistance >= 0

\* Lines 298 and 337: is there budget left for an edit operation?
canEdit(levenshteinDistance) == levenshteinDistance > 0

\* Lines 273-358.  start and end are passed by value: the callee works on its
\* own read position and its own length.  ReadRune, WriteRune and UnreadRune
\* do not fail on the runes of a well-formed string.
RECURSIVE searchSubString(_, _, _, _, _, _, _, _, _)
RECURSIVE searchLetters(_, _, _, _, _, _, _, _, _, _, _, _)

\* The loops of lines 299-315 (rest is end after the ReadRune, passIgnore is
\* char) and of lines 338-354 (rest is end, passIgnore is 0) over the letters
\* ks still to visit.
searchLetters(H, ks, start, rest, levenshteinDistance, maxResults, allowAdd, allowDelete, char, ignoreChar, passIgnore, acc) ==
    IF ks = << >> THEN acc
    ELSE LET letter == H.letters[Head(ks)]
         IN  IF letter.char # char /\ letter.char # ignoreChar
             THEN LET found == searchSubString(H, letter.state, Append(start, letter.char),
                                               rest, levenshteinDistance - 1, maxResults,
                                               allowAdd, allowDelete, passIgnore)
                      got == collect(found, acc, maxResults)
                  IN  IF got.returned THEN got
                      ELSE searchLetters(H, Tail(ks), start, rest, levenshteinDistance,
                                         maxResults, allowAdd, allowDelete, char,
                                         ignoreChar, passIgnore, got)
             ELSE searchLetters(H, Tail(ks), start, rest, levenshteinDistance, maxResults,
                                allowAdd, allowDelete, char, ignoreChar, passIgnore, acc)

searchSubString(H, state, start, end, levenshteinDistance, maxResults, allowAdd, allowDelete, ignoreChar) ==
    IF Len(end) > 0
    THEN LET char == Head(end)
             rest == Tail(end)
             letter == getletter(H, state, char)
             \* lines 280-296
             exact ==
                 IF char # ignoreChar /\ letter # NIL
                 THEN collect(searchSubString(H, H.letters[letter].state,
                                              Append(start, H.letters[letter].char), rest,
                                              levenshteinDistance, maxResults, allowAdd,
                                              allowDelete, NoRune),
                              NoWords, maxResults)
                 ELSE NoWords
             \* lines 298-315
             changed ==
                 IF exact.returned \/ ~canEdit(levenshteinDistance) THEN exact
                 ELSE searchLetters(H, lettersOf(H, state), start, rest, levenshteinDistance,
                                    maxResults, allowAdd, allowDelete, char, ignoreChar, char,
                                    exact)
             \* lines 316-325
             removed ==
                 IF changed.returned \/ ~(canEdit(levenshteinDistance) /\ allowDelete) THEN changed
                 ELSE collect(searchSubString(H, state, start, rest, levenshteinDistance - 1,
                                              maxResults, allowAdd, allowDelete, char),
                              changed, maxResults)
         IN  \* lines 337-355
             IF removed.returned \/ ~(canEdit(levenshteinDistance) /\ allowAdd) THEN removed
             ELSE searchLetters(H, lettersOf(H, state), start, end, levenshteinDistance,
                                maxResults, allowAdd, allowDelete, char, ignoreChar, NoRune,
                                removed)
    ELSE LET accepted ==   \* lines 331-335
                 IF H.states[state].final
                 THEN [words |-> <<start>>, wordsSize |-> 1, returned |-> FALSE]
                 ELSE NoWords
         IN  IF canEdit(levenshteinDistance) /\ allowAdd
             THEN searchLetters(H, lettersOf(H, state), start, end, levenshteinDistance,
                                maxResults, allowAdd, allowDelete, NoRune, ignoreChar, NoRune,
                                accepted)
             ELSE accepted

\* Truncation that forgets to drop anything.
truncateNothing(wordsFound, wordsSize, maxResults) ==
    [panic |-> FALSE, words |-> wordsFound, wordsSize |-> wordsSize]

\* Truncation that drops the end of the list (the words found first).
truncateTail(wordsFound, wordsSize, maxResults) ==
    IF wordsSize > maxResults /\ maxResults >= 0 /\ Len(wordsFound) >= maxResults
    THEN [panic |-> FALSE, words |-> SubSeq(wordsFound, 1, maxResults),
          wordsSize |-> maxResults]
    ELSE [panic |-> FALSE, words |-> wordsFound, wordsSize |-> wordsSize]

\* Lines 249-251: drop the head of the list while wordsSize > maxResults.
\* Reading nextWord of a nil list is a nil dereference.
RECURSIVE truncateWords(_, _, _)
truncateWords(wordsFound, wordsSize, maxResults) ==
    IF wordsSize > maxResults
    THEN IF wordsFound = << >>
         THEN [panic |-> TRUE, words |-> << >>, wordsSize |-> wordsSize]
         ELSE truncateWords(Tail(wordsFound), wordsSize - 1, maxResults)
    ELSE [panic |-> FALSE, words |-> wordsFound, wordsSize |-> wordsSize]

\* Lines 253-257: make([]string, wordsSize), filled from its last element down
\* with the list from its head on.
fillWords(wordsFound, wordsSize) ==
    IF wordsSize < 0 \/ wordsSize > Len(wordsFound)
    THEN [panic |-> TRUE, words |-> << >>]
    ELSE [panic |-> FALSE, words |-> [k \in 1..wordsSize |-> wordsFound[wordsSize - k + 1]]]

\* Lines 243-259.  found and foundSize are what searchSubString returned.
SearchResult(H, word, levenshteinDistance, maxResults, allowAdd, allowDelete) ==
    LET r == searchSubString(H, InitialState, << >>, word, levenshteinDistance, maxResults,
                             allowAdd, allowDelete, NoRune)
        t == truncateWords(r.words, r.wordsSize, maxResults)
        f == IF t.panic THEN [panic |-> TRUE, words |-> << >>]
             ELSE fillWords(t.words, t.wordsSize)
    IN  [found |-> r.words, foundSize |-> r.wordsSize, panic |-> f.panic, words |-> f.words]

\* ------------------------------------------------------------------ state
VARIABLES
    words,         \* the words given to CreateDAWG so far, in order
    heap,          \* the states and letters allocated
    maxWordSize,   \* CreateDAWG's maxWordSize
    nbNodes,       \* CreateDAWG's nbNodes, DAWG.nodesCount once built
    pc,            \* where the calling goroutine is
    run,           \* how many times compressTrie has been called
    levels,        \* compressTrie's levels slice
    channels,      \* number of tokens in channels[i] (capacity 1)
    pendingTokens, \* levels whose goroutine of line 144 has not run yet
    done,          \* number of values in the done channel
    received,      \* the counter of the loop of line 156
    workers,       \* the goroutines of line 150
    merge,         \* the loop variables of lines 162-174
    search         \* the arguments and the outcome of a Search call

vars == <<words, heap, maxWordSize, nbNodes, pc, run, levels, channels, pendingTokens,
          done, received, workers, merge, search>>

compressVars == <<levels, channels, pendingTokens, done, received, workers, merge>>

Words == SeqsUpTo(Alphabet, MaxWordLen)

NoSearch == [called |-> FALSE]

Init ==
    /\ words = << >>
    /\ heap = EmptyHeap
    /\ maxWordSize = 0
    /\ nbNodes = 1
    /\ pc = "building"
    /\ run = 0
    /\ levels = << >>
    /\ channels = << >>
    /\ pendingTokens = {}
    /\ done = 0
    /\ received = 0
    /\ workers = << >>
    /\ merge = mergeInit(EmptyHeap, << >>)
    /\ search = NoSearch

\* CreateDAWG, lines 124-130: one iteration of the loop over words.  The
\* words are taken distinct: addWord of a word already inserted finds every
\* letter, creates nothing and sets the same final flag again.
AddWord(word) ==
    /\ pc = "building"
    /\ Len(words) < MaxWords
    /\ word \notin Range(words)
    /\ LET r == addWord(heap, word)
       IN  /\ heap' = r.heap
           /\ maxWordSize' = IF r.wordSize > maxWordSize THEN r.wordSize ELSE maxWordSize
           /\ nbNodes' = nbNodes + r.createdNodes
    /\ words' = Append(words, word)
    /\ UNCHANGED <<pc, run, compressVars, search>>

\* compressTrie, lines 137-154: allocate levels and, when the initial state
\* has letters, the channels, and start every goroutine.
startCompress ==
    /\ run' = run + 1
    /\ levels' = [l \in 1..maxWordSize |-> NIL]
    /\ received' = 0
    /\ done' = 0
    /\ IF heap.states[InitialState].lettersCount # 0
       THEN /\ channels' = [l \in 1..maxWordSize |-> 0]
            /\ pendingTokens' = 0..(maxWordSize - 1)
            /\ workers' = LET ks == lettersOf(heap, InitialState)
                          IN  [w \in 1..Len(ks) |-> NewWorker(heap, ks[w])]
            /\ pc' = "wait"
            /\ merge' = merge
       ELSE /\ channels' = << >>
            /\ pendingTokens' = {}
            /\ workers' = << >>
            /\ pc' = "merge"
            /\ merge' = mergeInit(heap, levels')

\* CreateDAWG, line 131: the call of compressTrie.
Compress ==
    /\ pc = "building"
    /\ startCompress
    /\ UNCHANGED <<words, heap, maxWordSize, nbNodes, search>>

\* Lines 144-146: channels[i] <- 1
DepositToken(l) ==
    /\ l \in pendingTokens
    /\ channels[l + 1] = 0
    /\ channels' = [channels EXCEPT ![l + 1] = 1]
    /\ pendingTokens' = pendingTokens \ {l}
    /\ UNCHANGED <<words, heap, maxWordSize, nbNodes, pc, run, levels, done, received,
                   workers, merge, search>>

visitOf(w) == workers[w].visits[workers[w].at]

\* Line 189: <-channels[curLevel]
WorkerRecv(w) ==
    /\ workers[w].pc = "recv"
    /\ IF visitOf(w).level >= maxWordSize
       THEN /\ workers' = [workers EXCEPT ![w].pc = "panic"]   \* index out of range
            /\ UNCHANGED channels
       ELSE /\ channels[visitOf(w).level + 1] = 1
            /\ channels' = [channels EXCEPT ![visitOf(w).level + 1] = 0]
            /\ workers' = [workers EXCEPT ![w].pc = "link"]
    /\ UNCHANGED <<words, heap, maxWordSize, nbNodes, pc, run, levels, pendingTokens, done,
                   received, merge, search>>

\* Line 190
WorkerLink(w) ==
    /\ workers[w].pc = "link"
    /\ heap' = linkState(heap, levels, visitOf(w).state, visitOf(w).level)
    /\ workers' = [workers EXCEPT ![w].pc = "store"]
    /\ UNCHANGED <<words, maxWordSize, nbNodes, pc, run, levels, channels, pendingTokens,
                   done, received, merge, search>>

\* Line 191
WorkerStore(w) ==
    /\ workers[w].pc = "store"
    /\ levels' = storeLevel(levels, visitOf(w).state, visitOf(w).level)
    /\ workers' = [workers EXCEPT ![w].pc = "send"]
    /\ UNCHANGED <<words, heap, maxWordSize, nbNodes, pc, run, channels, pendingTokens,
                   done, received, merge, search>>

\* Line 192: channels[curLevel] <- 1, then on to the next state of the
\* traversal, or back in the goroutine (line 152) after the last one.
WorkerSend(w) ==
    /\ workers[w].pc = "send"
    /\ channels[visitOf(w).level + 1] = 0
    /\ channels' = [channels EXCEPT ![visitOf(w).level + 1] = 1]
    /\ workers' = IF workers[w].at < Len(workers[w].visits)
                  THEN [workers EXCEPT ![w].at = @ + 1, ![w].pc = "recv"]
                  ELSE [workers EXCEPT ![w].pc = "done"]
    /\ UNCHANGED <<words, heap, maxWordSize, nbNodes, pc, run, levels, pendingTokens, done,
                   received, merge, search>>

\* Line 152: done <- 1 (the channel has room for every worker)
WorkerDone(w) ==
    /\ workers[w].pc = "done"
    /\ done' = done + 1
    /\ workers' = [workers EXCEPT ![w].pc = "exit"]
    /\ UNCHANGED <<words, heap, maxWordSize, nbNodes, pc, run, levels, channels,
                   pendingTokens, received, merge, search>>

\* Lines 156-158: <-done, lettersCount times; then on to line 162.
WaitDone ==
    /\ pc = "wait"
    /\ done > 0
    /\ done' = done - 1
    /\ received' = received + 1
    /\ IF received + 1 >= heap.states[InitialState].lettersCount
       THEN /\ pc' = "merge"
            /\ merge' = mergeInit(heap, levels)
       ELSE UNCHANGED <<pc, merge>>
    /\ UNCHANGED <<words, heap, maxWordSize, nbNodes, run, levels, channels, pendingTokens,
                   workers, search>>

\* Lines 162-174: one evaluation of a loop condition and the body it guards.
\* deletedNodes is a uint that a walk round a cyclic list can increment for
\* ever; the step is cut off once it has counted more merges than there are
\* states (a walk along an acyclic list of distinct states never counts that many).
MergeStep ==
    /\ pc = "merge"
    /\ merge.at # "return"
    /\ merge.deletedNodes <= Len(heap.states)
    /\ merge' = mergeStep(merge)
    /\ heap' = merge'.heap
    /\ UNCHANGED <<words, maxWordSize, nbNodes, pc, run, levels, channels,
                   pendingTokens, done, received, workers, search>>

\* Line 175 and CreateDAWG lines 131-132: nbNodes -= compressTrie(...).  Both
\* are uint; deletedNodes of the first call counts states that nbNodes
\* counted, so the subtraction does not wrap.  The locals of compressTrie go
\* out of scope; a goroutine of line 144 that has not run yet can only write
\* to a channel that nothing reads any more.
CompressReturn ==
    /\ pc = "merge"
    /\ merge.at = "return"
    /\ IF run = 1
       THEN /\ nbNodes' = nbNodes - merge.deletedNodes
            /\ pc' = "built"
       ELSE /\ nbNodes' = nbNodes
            /\ pc' = "recompressed"
    /\ levels' = << >>
    /\ channels' = << >>
    /\ pendingTokens' = {}
    /\ done' = 0
    /\ received' = 0
    /\ workers' = << >>
    /\ merge' = [mergeInit(EmptyHeap, << >>) EXCEPT !.deletedNodes = merge.deletedNodes]
    /\ UNCHANGED <<words, heap, maxWordSize, run, search>>

Queries == SeqsUpTo(Alphabet, MaxQueryLen)

\* A call of Search on the graph CreateDAWG returned.
Search(word, levenshteinDistance, maxResults, allowAdd, allowDelete) ==
    /\ pc = "built"
    /\ pc' = "searched"
    /\ search' = [called |-> TRUE, word |-> word,
                  levenshteinDistance |-> levenshteinDistance,
                  maxResults |-> maxResults, allowAdd |-> allowAdd,
                  allowDelete |-> allowDelete]
                 @@ SearchResult(heap, word, levenshteinDistance, maxResults, allowAdd,
                                 allowDelete)
    /\ UNCHANGED <<words, heap, maxWordSize, nbNodes, run, compressVars>>

\* A second call of compressTrie, on the graph the first one left.
Recompress ==
    /\ pc = "built"
    /\ startCompress
    /\ UNCHANGED <<words, heap, maxWordSize, nbNodes, search>>

Build ==
    \/ \E word \in Words : AddWord(word)
    \/ Compress
    \/ \E l \in pendingTokens : DepositToken(l)
    \/ \E w \in DOMAIN workers :
         WorkerRecv(w) \/ WorkerLink(w) \/ WorkerStore(w) \/ WorkerSend(w) \/ WorkerDone(w)
    \/ WaitDone
    \/ MergeStep
    \/ CompressReturn

Next ==
    \/ Build
    \/ \E word \in Queries, levenshteinDistance \in 0..MaxDist,
          maxResults \in (-1)..MaxResults, allowAdd \in BOOLEAN, allowDelete \in BOOLEAN :
         Search(word, levenshteinDistance, maxResults, allowAdd, allowDelete)

NextTwice == Build \/ Recompress

SpecTwice == Init /\ [][NextTwice]_vars

Spec == Init /\ [][Next]_vars

\* ------------------------------------------------- what the claims speak of
Inserted == Range(words)

\* The words spelled by the paths from state s to a final state.
RECURSIVE Language(_, _)
Language(H, s) ==
    (IF H.states[s].final THEN {<< >>} ELSE {})
    \cup UNION {{<<H.letters[k].char>> \o w : w \in Language(H, H.letters[k].state)} :
                k \in Range(lettersOf(H, s))}

\* The states reachable from the initial state.
RECURSIVE ReachableFrom(_, _)
ReachableFrom(H, s) ==
    {s} \cup UNION {ReachableFrom(H, H.letters[k].state) : k \in Range(lettersOf(H, s))}

Reachable(H) == ReachableFrom(H, InitialState)

\* The (rune, target) edges of a state.
Edges(H, s) == {<<H.letters[k].char, H.letters[k].state>> : k \in Range(lettersOf(H, s))}

\* The states of the minimal acyclic automaton of a word set: one per set of
\* suffixes that can follow a prefix of a word, the empty prefix included.
Prefixes(W) == UNION {{SubSeq(w, 1, n) : n \in 0..Len(w)} : w \in W} \cup {<< >>}

SuffixesAfter(W, p) ==
    {SubSeq(w, Len(p) + 1, Len(w)) : w \in {x \in W : Len(x) >= Len(p) /\ SubSeq(x, 1, Len(p)) = p}}

MinimalStates(W) == Cardinality({SuffixesAfter(W, p) : p \in Prefixes(W)})

\* The least number of edit operations that turn query q into word w, when a
\* rune of q may be replaced, a rune may be inserted (if ins) and a rune of q
\* may be removed (if del); Unreachable when no sequence of them does.
Unreachable == MaxWordLen + MaxQueryLen + 1

RECURSIVE EditDistance(_, _, _, _)
EditDistance(q, w, ins, del) ==
    IF q = << >> THEN (IF w = << >> THEN 0 ELSE IF ins THEN Len(w) ELSE Unreachable)
    ELSE IF w = << >> THEN (IF del THEN Len(q) ELSE Unreachable)
    ELSE LET sub == (IF Head(q) = Head(w) THEN 0 ELSE 1) + EditDistance(Tail(q), Tail(w), ins, del)
             add == IF ins THEN 1 + EditDistance(q, Tail(w), ins, del) ELSE Unreachable
             rem == IF del THEN 1 + EditDistance(Tail(q), w, ins, del) ELSE Unreachable
         IN  Min(Min(sub, add), Min(rem, Unreachable))

Within(q, w, d, ins, del) == EditDistance(q, w, ins, del) <= d

Searched == pc = "searched"

\* ---------------------------------------------------------------------- C1
\* C1: a search with distance 0 and maxResults >= 1 on the graph CreateDAWG
\* returned gives exactly [q] when q was inserted and nothing otherwise,
\* whatever allowAdd and allowDelete are.
C1_ExactMatch ==
    (Searched /\ search.levenshteinDistance = 0 /\ search.maxResults >= 1)
    => /\ ~search.panic
       /\ search.words = IF search.word \in Inserted THEN <<search.word>> ELSE << >>

\* An exact search that finds its word in a graph where the minimiser merged states.
C1_Witness ==
    /\ Searched /\ search.levenshteinDistance = 0 /\ search.maxResults >= 1
    /\ search.allowAdd /\ search.allowDelete
    /\ merge.deletedNodes >= 2
    /\ Len(search.word) = MaxWordLen
    /\ search.words = <<search.word>>

\* ---------------------------------------------------------------------- C2
\* C2: when nothing is truncated, Search returns every inserted word that is
\* within levenshteinDistance allowed edit operations of the query.
C2_FindsAllWithin ==
    (Searched /\ ~search.panic /\ search.maxResults > 0
              /\ search.foundSize <= search.maxResults)
    => \A w \in Inserted :
         Within(search.word, w, search.levenshteinDistance, search.allowAdd,
                search.allowDelete)
         => w \in Range(search.words)

\* ---------------------------------------------------------------------- C3
\* C3: every word Search returns was inserted and is within
\* levenshteinDistance allowed edit operations of the query; without
\* insertions and deletions it has as many runes as the query.
C3_OnlyWithin ==
    (Searched /\ ~search.panic)
    => \A w \in Range(search.words) :
         /\ w \in Inserted
         /\ Within(search.word, w, search.levenshteinDistance, search.allowAdd,
                   search.allowDelete)
         /\ (~search.allowAdd /\ ~search.allowDelete) => Len(w) = Len(search.word)

\* A search that returns a word reached by an insertion and one reached by a
\* substitution, on a graph with merged states.
C3_Witness ==
    /\ Searched /\ ~search.panic
    /\ merge.deletedNodes >= 1
    /\ search.levenshteinDistance = MaxDist
    /\ \E w \in Range(search.words) : Len(w) > Len(search.word)
    /\ \E w \in Range(search.words) : Len(w) = Len(search.word) /\ w # search.word

\* ---------------------------------------------------------------------- C4
\* C4: with maxResults = k > 0 Search returns at most k words, also when the
\* list it accumulated holds more than k + 1.
C4_Capped ==
    (Searched /\ search.maxResults > 0)
    => ~search.panic /\ Len(search.words) <= search.maxResults

\* A search whose accumulated list grew beyond k + 1.
C4_Witness ==
    /\ Searched /\ search.maxResults > 0
    /\ search.foundSize > search.maxResults + 1
    /\ Len(search.words) = search.maxResults

\* ---------------------------------------------------------------------- C5
\* C5: with maxResults <= 0 Search does not fail and returns what it returns
\* with a positive maxResults larger than the number of matches.
C5_Unbounded ==
    (Searched /\ search.maxResults <= 0)
    => /\ ~search.panic
       /\ search.words =
            SearchResult(heap, search.word, search.levenshteinDistance,
                         search.foundSize + 1, search.allowAdd, search.allowDelete).words

\* ---------------------------------------------------------------------- C6
\* C6: nodesCount of the graph CreateDAWG returns is the number of states of
\* the minimal automaton of the inserted words; it is the number of reachable
\* states, and no two distinct reachable states have the same final flag and
\* the same edges.
C6_Minimal ==
    pc = "built"
    => /\ nbNodes = MinimalStates(Inserted)
       /\ nbNodes = Cardinality(Reachable(heap))
       /\ \A s, t \in Reachable(heap) :
            (heap.states[s].final = heap.states[t].final /\ Edges(heap, s) = Edges(heap, t))
            => s = t

\* A graph of several states from which the minimiser removed several.
C6_Witness ==
    /\ pc = "built"
    /\ merge.deletedNodes >= 3
    /\ nbNodes >= 3

\* ---------------------------------------------------------------------- C7
\* C7: a second run of compressTrie on the graph the first one minimised
\* merges nothing: its merge count stays 0 and every letter keeps its target.
C7_SecondRunMergesNothing ==
    (run = 2 /\ pc \in {"merge", "recompressed"}) => merge.deletedNodes = 0

\* ---------------------------------------------------------------------- C8
\* The list of level l: the states from levels[l] on along state.next.
RECURSIVE listFrom(_, _, _)
listFrom(H, s, fuel) ==
    IF s = NIL \/ fuel = 0 THEN << >> ELSE <<s>> \o listFrom(H, H.states[s].next, fuel - 1)

levelList(H, lv, l) == listFrom(H, lv[l + 1], Len(H.states) + 1)

\* 0 for a state without letters, else 1 + the greatest depth of its children.
RECURSIVE depth(_, _)
depth(H, s) ==
    IF H.states[s].letters = NIL THEN 0
    ELSE LET below == {depth(H, H.letters[k].state) : k \in Range(lettersOf(H, s))}
         IN  1 + CHOOSE d \in below : \A e \in below : e <= d

Occurrences(seq, x) == Cardinality({k \in 1..Len(seq) : seq[k] = x})

MergeStarts == pc = "merge" /\ run = 1 /\ merge.at = "level" /\ merge.i = 0

\* Every state but the initial one is exactly once in the lists, in the list
\* of its depth, and that depth is an index of levels.
Classified ==
    \A s \in 2..Len(heap.states) :
      /\ depth(heap, s) < maxWordSize
      /\ \A l \in 0..(maxWordSize - 1) :
           Occurrences(levelList(heap, levels, l), s) = IF l = depth(heap, s) THEN 1 ELSE 0

\* C8: when the merge phase starts every goroutine of phase 1 (the one of each
\* letter of the initial state and the one that deposits the token of each
\* level) has finished, and every state but the initial one is exactly once
\* in the per-depth lists, in the list of its depth, below maxWordSize.
C8_AllFinishedAndClassified ==
    MergeStarts
    => /\ \A w \in DOMAIN workers : workers[w].pc = "exit"
       /\ pendingTokens = {}
       /\ Classified

\* The part of C8 about the workers of line 150 and the lists alone.
WorkersFinishedAndClassified ==
    MergeStarts
    => /\ \A w \in DOMAIN workers : workers[w].pc = "exit"
       /\ \A l \in pendingTokens : levels[l + 1] = NIL
       /\ Classified

\* ---------------------------------------------------------------------- C9
\* The words a search finds when nothing stops it early, in the order it
\* finds them (searchSubString puts what it finds in front of its list).
Discovered(H, word, levenshteinDistance, allowAdd, allowDelete) ==
    Reverse(searchSubString(H, InitialState, << >>, word, levenshteinDistance, 0, allowAdd,
                            allowDelete, NoRune).words)

Overfull == Searched /\ search.maxResults > 0 /\ search.foundSize > search.maxResults

\* C9: when a search with maxResults = k > 0 accumulated more than k words,
\* it returns the last k it discovered, in discovery order.
C9_KeepsLatest ==
    Overfull
    => LET disc == Reverse(search.found)
       IN  /\ ~search.panic
           /\ search.words = SubSeq(disc, Len(disc) - search.maxResults + 1, Len(disc))

\* C9 as amended: it returns the first k it discovered, in discovery order
\* (the words dropped are the ones discovered last).
C9_KeepsEarliest ==
    Overfull
    => /\ ~search.panic
       /\ search.words = SubSeq(Reverse(search.found), 1, search.maxResults)
       /\ search.words = SubSeq(Discovered(heap, search.word, search.levenshteinDistance,
                                           search.allowAdd, search.allowDelete),
                                1, search.maxResults)

\* A truncated search whose first k and last k discovered words differ.
C9_Witness ==
    /\ Overfull /\ ~search.panic
    /\ search.maxResults = MaxResults
    /\ LET disc == Reverse(search.found)
       IN  SubSeq(disc, 1, search.maxResults)
             # SubSeq(disc, Len(disc) - search.maxResults + 1, Len(disc))

\* --------------------------------------------------------------------- C10
\* CreateDAWG under the schedule that runs the goroutines of line 150 one
\* after the other, in the order they are started.
RECURSIVE insertAll(_, _, _)
insertAll(H, size, ws) ==
    IF ws = << >> THEN [heap |-> H, maxWordSize |-> size]
    ELSE LET r == addWord(H, Head(ws))
         IN  insertAll(r.heap, IF r.wordSize > size THEN r.wordSize ELSE size, Tail(ws))

RECURSIVE pushAll(_, _, _)
pushAll(H, lv, visits) ==
    IF visits = << >> THEN [heap |-> H, levels |-> lv]
    ELSE LET v == Head(visits)
         IN  pushAll(linkState(H, lv, v.state, v.level), storeLevel(lv, v.state, v.level),
                     Tail(visits))

RECURSIVE visitsOfAll(_, _)
visitsOfAll(H, ks) ==
    IF ks = << >> THEN << >>
    ELSE analyseSubTrie(H, H.letters[Head(ks)].state).visits \o visitsOfAll(H, Tail(ks))

RECURSIVE mergeAll(_)
mergeAll(m) == IF m.at = "return" THEN m ELSE mergeAll(mergeStep(m))

SequentialDAWG(ws) ==
    LET t == insertAll(EmptyHeap, 0, ws)
        p == pushAll(t.heap, [l \in 1..t.maxWordSize |-> NIL],
                     visitsOfAll(t.heap, lettersOf(t.heap, InitialState)))
    IN  mergeAll(mergeInit(p.heap, p.levels)).heap

\* C10: for given words and Search arguments, Search returns the same
\* sequence whatever the interleaving of the goroutines of compressTrie was:
\* the one it returns on the graph built under the sequential schedule.
C10_SameUnderEverySchedule ==
    Searched
    => search.words =
         SearchResult(SequentialDAWG(words), search.word, search.levenshteinDistance,
                      search.maxResults, search.allowAdd, search.allowDelete).words

\* What does not depend on the schedule: the words returned, as a set, when
\* nothing is truncated.
SameSetUnderEverySchedule ==
    (Searched /\ search.maxResults > 0 /\ search.foundSize <= search.maxResults)
    => Range(search.words) =
         Range(SearchResult(SequentialDAWG(words), search.word, search.levenshteinDistance,
                            search.maxResults, search.allowAdd, search.allowDelete).words)

====
